---- MODULE Spec2Model ----
(***************************************************************************)
(* RPLidar C1 driver: protocol codec (protocol.py), device controller      *)
(* (scanner.py) and the streaming coroutine.                               *)
(*                                                                         *)
(* Representation:                                                         *)
(*   - a bytes object is a sequence of integers 0..255;                    *)
(*   - a float angle or distance is held in hundredths (44.67 -> 4467,     *)
(*     1250.0 -> 125000), which is exact for every value the decoder can   *)
(*     produce;                                                            *)
(*   - Python's None / a value v is the set {} / {v};                      *)
(*   - a call's outcome is a record whose field exc is "None" on a normal  *)
(*     return and the Python exception class otherwise.                    *)
(***************************************************************************)
EXTENDS Integers, Sequences, FiniteSets, TLC

\* ------------------------------------------------------------------ bytes

Min(a, b) == IF a < b THEN a ELSE b

Pow2(n) == 2 ^ n

\* x >> n and x << n on non-negative integers
Shr(x, n) == x \div Pow2(n)
Shl(x, n) == x * Pow2(n)

RECURSIVE BitAnd(_, _)
BitAnd(a, b) ==
    IF a = 0 \/ b = 0 THEN 0
    ELSE (IF a % 2 = 1 /\ b % 2 = 1 THEN 1 ELSE 0) + 2 * BitAnd(a \div 2, b \div 2)

RECURSIVE BitOr(_, _)
BitOr(a, b) ==
    IF a = 0 THEN b
    ELSE IF b = 0 THEN a
    ELSE (IF a % 2 = 1 \/ b % 2 = 1 THEN 1 ELSE 0) + 2 * BitOr(a \div 2, b \div 2)

\* bytes slicing s[i:j] with 0-based, end-exclusive Python indices
Slice(s, i, j) ==
    LET hi == Min(j, Len(s))
    IN  IF i >= hi THEN <<>> ELSE SubSeq(s, i + 1, hi)

\* s[i] with a 0-based Python index (the caller guards i < len(s))
At(s, i) == s[i + 1]

None == {}
Some(v) == {v}

\* ------------------------------------------------------------ protocol.py

SYNC_BYTE == 165
RESPONSE_SYNC_BYTE == 90

STOP_BYTE == 37
SCAN_BYTE == 32
FORCE_SCAN_BYTE == 33
INFO_BYTE == 80
GET_HEALTH_BYTE == 82
RESET_BYTE == 64
EXPRESS_SCAN_BYTE == 130
GET_INFO_BYTE == 80
GET_SAMPLE_RATE == 89
GET_LIDAR_CONF == 132

RequestBytes ==
    [STOP_BYTE |-> STOP_BYTE, SCAN_BYTE |-> SCAN_BYTE,
     FORCE_SCAN_BYTE |-> FORCE_SCAN_BYTE, INFO_BYTE |-> INFO_BYTE,
     GET_HEALTH_BYTE |-> GET_HEALTH_BYTE, RESET_BYTE |-> RESET_BYTE,
     EXPRESS_SCAN_BYTE |-> EXPRESS_SCAN_BYTE, GET_INFO_BYTE |-> GET_INFO_BYTE,
     GET_SAMPLE_RATE |-> GET_SAMPLE_RATE, GET_LIDAR_CONF |-> GET_LIDAR_CONF]

SINGLE_RESPONSE == 0
MUTLI_RESPONSE == 1
ResponseMode_all == 0..3
ResponseMode == {SINGLE_RESPONSE, MUTLI_RESPONSE}

GOOD == 0
WARNING == 1
ERROR == 2
HealthStatus == {GOOD, WARNING, ERROR}

RESPONSE_DESCRIPTOR_LENGTH == 7

\* ByteEnum.__add__ / __radd__: the member's value appended to the bytes
ByteEnum_add(left, member) == left \o <<member>>

\* Request.create_request: SYNC_BYTE + command
create_request_swapped(command) == ByteEnum_add(<<command>>, SYNC_BYTE)
create_request(command) == ByteEnum_add(<<SYNC_BYTE>>, command)

\* Response._check_response_sync_bytes: TRUE when it returns, FALSE when it
\* raises ValueError
_check_response_sync_bytes_first_only(descriptor) ==
    Slice(descriptor, 0, 1) = <<SYNC_BYTE>>
_check_response_sync_bytes(descriptor) ==
    /\ Slice(descriptor, 0, 1) = <<SYNC_BYTE>>
    /\ Slice(descriptor, 1, 2) = <<RESPONSE_SYNC_BYTE>>

\* Response._calculate_request_details on a descriptor whose slice [2:6] has
\* four bytes. The code forms b1 | b2<<8 | b3<<16 | b4<<24 and takes
\* composite & (2^30 - 1) and (composite >> 30) & 3; the composite needs 32
\* bits, so it is held here as its low 24 bits and its top byte b4:
\* composite & (2^30-1) = low24 | ((b4 & 63) << 24), composite >> 30 = b4 >> 6.
DetailsOf(b1, b2, b3, b4) ==
    LET low24  == BitOr(b1, BitOr(Shl(b2, 8), Shl(b3, 16)))
        length == BitOr(low24, Shl(BitAnd(b4, 63), 24))
        mode   == BitAnd(Shr(b4, 6), 3)
    IN  [length |-> length, mode |-> mode]

_calculate_request_details_last4(descriptor) ==
    IF Len(descriptor) < 7
    THEN DetailsOf(At(descriptor, 2), At(descriptor, 3), At(descriptor, 4), At(descriptor, 5))
    ELSE DetailsOf(At(descriptor, 3), At(descriptor, 4), At(descriptor, 5), At(descriptor, 6))
_calculate_request_details(descriptor) ==
    DetailsOf(At(descriptor, 2), At(descriptor, 3), At(descriptor, 4), At(descriptor, 5))

\* Response.parse_response_descriptor applied to the bytes serial.read(7)
\* returned. ValueError is raised by the sync check, by the unpacking of
\* descriptor[2:6] when the read was short, and by ResponseMode(mode) when
\* mode is 2 or 3.
Raise(exc, site) == [exc |-> exc, site |-> site, length |-> 0, mode |-> 0]

parse_response_descriptor(descriptor) ==
    IF ~_check_response_sync_bytes(descriptor) THEN Raise("ValueError", "sync")
    ELSE IF Len(Slice(descriptor, 2, 6)) # 4 THEN Raise("ValueError", "unpack")
    ELSE LET d == _calculate_request_details(descriptor)
         IN  IF d.mode \notin ResponseMode THEN Raise("ValueError", "ResponseMode")
             ELSE [exc |-> "None", site |-> "return", length |-> d.length, mode |-> d.mode]

\* Python round(x) of the rational n/d (d > 0, n >= 0): nearest integer, ties
\* to the even one
RoundHalfEven_floor(n, d) == n \div d
RoundHalfEven(n, d) ==
    LET k == n \div d
        r == n % d
    IN  IF 2 * r > d \/ (2 * r = d /\ k % 2 = 1) THEN k + 1 ELSE k

\* round(k / 3, 2) in hundredths: the nearest integer to 100k/3, which is
\* never a tie
RoundThirdTo2(k) == (200 * k + 3) \div 6

\* lines 123-125 applied to the angle n/d: round(round(angle * 3) / 3, 2), in
\* hundredths
Quantize(n, d) == RoundThirdTo2(RoundHalfEven(3 * n, d))

\* Response._parse_simple_scan_result on a response of at least 5 bytes
AngleOf(raw) == RoundThirdTo2(RoundHalfEven(3 * raw, 64))

_parse_simple_scan_result_low6(response) ==
    [q     |-> BitAnd(At(response, 0), 63),
     a_deg |-> AngleOf(BitOr(BitAnd(Shr(At(response, 1), 1), 127), Shl(At(response, 2), 7))),
     d_mm  |-> 25 * BitOr(At(response, 3), Shl(At(response, 4), 8))]
_parse_simple_scan_result(response) ==
    [q     |-> BitAnd(Shr(At(response, 0), 2), 63),
     a_deg |-> AngleOf(BitOr(BitAnd(Shr(At(response, 1), 1), 127), Shl(At(response, 2), 7))),
     d_mm  |-> 25 * BitOr(At(response, 3), Shl(At(response, 4), 8))]

\* Response._parse_simple_scan_result called on any bytes: response[0] ..
\* response[4] raise IndexError when the response is shorter than 5 bytes
parse_simple_scan_call(response) ==
    IF Len(response) < 5
    THEN [exc |-> "IndexError", q |-> 0, a_deg |-> 0, d_mm |-> 0]
    ELSE LET r == _parse_simple_scan_result(response)
         IN  [exc |-> "None", q |-> r.q, a_deg |-> r.a_deg, d_mm |-> r.d_mm]

\* Response.parse_error_code on a response of at least 3 bytes
parse_error_code(response) == BitOr(At(response, 1), Shl(At(response, 2), 8))

\* ------------------------------------------------------------------ state

VARIABLES
    printer,           \* the queue_printer task of the example program: where it is, what it printed
    arg,               \* input of the codec function or of the streaming run under check
    ret,               \* what the codec function returned for arg
    constructed,       \* "no" before RPLidar(...), "yes" after it returned, "failed" if it raised
    rx,                \* serial input buffer: bytes received and not yet read (in_waiting = Len(rx))
    tx,                \* requests written to the serial port and flushed, oldest first
    fed,               \* number of scan records the device has delivered so far
    stop_event,        \* RPLidar.stop_event (asyncio.Event)
    output_queue,      \* RPLidar.output_queue (asyncio.Queue, no maxsize): items not yet taken
    unfinished_tasks,  \* asyncio.Queue._unfinished_tasks
    dicts,             \* the dict objects created by _init_return_dict, in creation order
    output_dict,       \* RPLidar.output_dict: 0 for None, else the index of a dict object
    streams,           \* the coroutines returned by simple_scan, in creation order
    running,           \* the coroutine that runs and has not suspended since its last step; 0 if none
    last,              \* the last call on the controller and its outcome
    port,              \* the SerialConnection: is_open (pyserial) and the _is_connected flag
    seen               \* what a reader of lidar.output_dict got: ref, the dict object (0: None,
                       \* or nothing read yet), and at, what that dict held at that moment

vars == <<printer, arg, ret, constructed, rx, tx, fed, stop_event, output_queue,
          unfinished_tasks, dicts, output_dict, streams, running, last, port, seen>>

codecVars == <<arg, ret>>
ctrlVars == <<printer, constructed, rx, tx, fed, stop_event, output_queue,
              unfinished_tasks, dicts, output_dict, streams, running, last, port, seen>>

\* -------------------------------------------------------------- transport

\* serial.read(n) on the buffer buf: the first n bytes, or all of buf when the
\* timeout expires with fewer than n received
ReadData(buf, n) == Slice(buf, 0, n)
ReadRest(buf, n) == Slice(buf, n, Len(buf))

\* Request.send_request: the request is written and flushed, after those
\* sent before it
send_request(log, request) == Append(log, request)

\* the calls a controller method makes on the serial port and on the clock, in
\* program order: write(bytes), flush(), read(n), disconnect(), sleep(ms)
Ev(m, x) == [m |-> m, x |-> x]

\* Request.send_request as calls on the port: serial.write(request), serial.flush()
send_request_calls(request) == <<Ev("write", request), Ev("flush", <<>>)>>

\* serial.read(n), for each n of reads in turn
read_calls(reads) == [i \in 1..Len(reads) |-> Ev("read", <<reads[i]>>)]

\* SerialConnection as its __init__ leaves it, which does not call
\* Serial.__init__: the attribute is_open, which Serial.__init__ creates,
\* does not exist yet (serial_init: Serial.__init__ has run on the object)
NotConnected == [is_open |-> FALSE, _is_connected |-> FALSE, serial_init |-> FALSE]

\* reading self.is_open, in disconnect or in the read and write of Serial,
\* raises AttributeError on an object Serial.__init__ never ran on
is_open_raises(p) == IF p.serial_init THEN "None" ELSE "AttributeError"

\* SerialConnection.disconnect: close() when the port is open, else a warning;
\* _is_connected is left as it is
disconnect_noop(p) == p
disconnect(p) == IF p.is_open THEN [p EXCEPT !.is_open = FALSE] ELSE p

\* the calls disconnect makes on the pyserial object
disconnect_calls(p) == IF p.is_open THEN <<Ev("close", <<>>)>> ELSE <<>>

\* SerialConnection.connect when the port can be opened: disconnect first if
\* _is_connected, then Serial.__init__ opens the port
connect(p) ==
    LET q == IF p._is_connected THEN disconnect(p) ELSE p
    IN  [q EXCEPT !.is_open = TRUE, !._is_connected = TRUE, !.serial_init = TRUE]

\* SerialConnection.connect when Serial.__init__ raises because the port
\* cannot be opened: is_open is False, the flag is not set, and
\* ConnectionError is raised
connect_failed(p) ==
    LET q == IF p._is_connected THEN disconnect(p) ELSE p
    IN  [q EXCEPT !.is_open = FALSE, !.serial_init = TRUE]

\* the calls connect makes on the pyserial object
connect_calls(p) ==
    (IF p._is_connected THEN disconnect_calls(p) ELSE <<>>) \o <<Ev("Serial.__init__", <<>>)>>

\* an empty dict, and d with d[k] = v stored
EmptyDict == [k \in {} |-> None]
DictSet(d, k, v) == [x \in (DOMAIN d) \cup {k} |-> IF x = k THEN v ELSE d[x]]

\* ------------------------------------------- Response.multi_response_handler

\* a coroutine object returned by handle_response(serial=, stop_event=,
\* output_queue=, length=, output_dict=): its arguments, where it stands
\* (created, loop: at the while test, sleep_empty: in asyncio.sleep(0.5),
\* sleep_short: in asyncio.sleep(0.1), done: returned, raised) and the
\* exception it ended with
NewStream(length, dict) ==
    [pc |-> "created", length |-> length, dict |-> dict, exc |-> "None", task_done |-> 0,
     make_return_dict |-> None]

\* the coroutine simple_scan(make_return_dict) returns: make_return_dict
\* records the argument of the call that created it
ScanStream(length, dict, make_return_dict) ==
    [NewStream(length, dict) EXCEPT !.make_return_dict = Some(make_return_dict)]

\* distance = None if distance == 0 else distance
NoReturn_keep_zero(distance) == Some(distance)
NoReturn(distance) == IF distance = 0 THEN None ELSE Some(distance)

\* output_dict[angle] = distance, when output_dict is not None
StoreSample_first_wins(ds, dict, angle, distance) ==
    IF dict = 0 \/ angle \in DOMAIN ds[dict] THEN ds
    ELSE [ds EXCEPT ![dict] = DictSet(@, angle, distance)]
StoreSample_int_bucket(ds, dict, angle, distance) ==
    IF dict = 0 THEN ds
    ELSE [ds EXCEPT ![dict] = DictSet(@, 100 * RoundHalfEven(angle, 100), distance)]
StoreSample(ds, dict, angle, distance) ==
    IF dict = 0 THEN ds
    ELSE [ds EXCEPT ![dict] = DictSet(@, angle, distance)]

\* output_queue.put(item) on the asyncio.Queue() of RPLidar.__init__, which
\* has no maxsize: the item is appended and put returns without suspending
queue_put_maxsize(q, item) == IF Len(q) >= 2 THEN q ELSE Append(q, item)
queue_put(q, item) == Append(q, item)

\* the coroutine ends with exception exc
StreamRaises(i, exc) ==
    /\ streams' = [streams EXCEPT ![i].pc = "raised", ![i].exc = exc]
    /\ running' = 0
    /\ UNCHANGED <<rx, dicts, output_queue, unfinished_tasks>>

\* lines 110-116: read one record, decode it, store it, publish it. A read
\* that returns fewer than 5 bytes makes _parse_simple_scan_result raise
\* IndexError. queue.put on a queue without maxsize never suspends, so the
\* coroutine goes on to the while test without yielding.
ReadAndPublish(i) ==
    LET s    == streams[i]
        data == ReadData(rx, s.length)
    IN  /\ rx' = ReadRest(rx, s.length)
        /\ IF Len(data) < 5
           THEN /\ streams' = [streams EXCEPT ![i].pc = "raised", ![i].exc = "IndexError"]
                /\ running' = 0
                /\ UNCHANGED <<dicts, output_queue, unfinished_tasks>>
           ELSE LET r        == _parse_simple_scan_result(data)
                    distance == NoReturn(r.d_mm)
                IN  /\ dicts' = StoreSample(dicts, s.dict, r.a_deg, distance)
                    /\ output_queue' = queue_put(output_queue,
                                                 [q |-> r.q, a_deg |-> r.a_deg, d_mm |-> distance])
                    /\ unfinished_tasks' = unfinished_tasks + 1
                    /\ streams' = [streams EXCEPT ![i].pc = "loop"]
                    /\ running' = i

\* line 117, asyncio.Queue.task_done: ValueError when there is no unfinished
\* task. The stream's task_done counts the calls the coroutine has made
TaskDone_skip(i) ==
    /\ streams' = [streams EXCEPT ![i].pc = "done"]
    /\ running' = 0
    /\ UNCHANGED <<rx, dicts, output_queue, unfinished_tasks>>
TaskDone(i) ==
    /\ IF unfinished_tasks <= 0
       THEN /\ streams' = [streams EXCEPT ![i].pc = "raised", ![i].exc = "ValueError",
                                          ![i].task_done = @ + 1]
            /\ UNCHANGED unfinished_tasks
       ELSE /\ streams' = [streams EXCEPT ![i].pc = "done", ![i].task_done = @ + 1]
            /\ unfinished_tasks' = unfinished_tasks - 1
    /\ running' = 0
    /\ UNCHANGED <<rx, dicts, output_queue>>

\* stop_event.is_set() in the while test (line 103)
is_set_never(ev) == FALSE
is_set(ev) == ev

\* one pass from the while test (line 103) to the next suspension or to the
\* end of the iteration. On a port that was closed, serial.in_waiting and
\* serial.read raise (PortNotOpenError of pyserial, or what the platform's
\* backend raises for a closed descriptor)
MultiResponseLoop(i) ==
    /\ i \in 1..Len(streams)
    /\ running \in {0, i}
    /\ streams[i].pc \in {"created", "loop"}
    /\ IF is_set(stop_event) THEN TaskDone(i)
       ELSE IF ~port.is_open THEN StreamRaises(i, "PortNotOpenError")
       ELSE IF Len(rx) = 0
       THEN /\ streams' = [streams EXCEPT ![i].pc = "sleep_empty"]
            /\ running' = 0
            /\ UNCHANGED <<rx, dicts, output_queue, unfinished_tasks>>
       ELSE IF Len(rx) < 10
       THEN /\ streams' = [streams EXCEPT ![i].pc = "sleep_short"]
            /\ running' = 0
            /\ UNCHANGED <<rx, dicts, output_queue, unfinished_tasks>>
       ELSE ReadAndPublish(i)
    /\ UNCHANGED <<printer, arg, ret, constructed, tx, fed, stop_event, output_dict, last, port, seen>>

\* asyncio.sleep(0.5) returns: continue
MultiResponseWakeEmpty(i) ==
    /\ i \in 1..Len(streams)
    /\ running = 0
    /\ streams[i].pc = "sleep_empty"
    /\ streams' = [streams EXCEPT ![i].pc = "loop"]
    /\ running' = i
    /\ UNCHANGED <<printer, arg, ret, constructed, rx, tx, fed, stop_event, output_queue,
                   unfinished_tasks, dicts, output_dict, last, port, seen>>

\* asyncio.sleep(0.1) returns: the record is read whatever is waiting now
MultiResponseWakeShort(i) ==
    /\ i \in 1..Len(streams)
    /\ running = 0
    /\ streams[i].pc = "sleep_short"
    /\ IF ~port.is_open THEN StreamRaises(i, "PortNotOpenError") ELSE ReadAndPublish(i)
    /\ UNCHANGED <<printer, arg, ret, constructed, tx, fed, stop_event, output_dict, last, port, seen>>

\* stop_event.set(), by the task that ends the scan
SetStop ==
    /\ running = 0
    /\ ~stop_event
    /\ stop_event' = TRUE
    /\ UNCHANGED <<printer, arg, ret, constructed, rx, tx, fed, output_queue, unfinished_tasks,
                   dicts, output_dict, streams, running, last, port, seen>>

\* ---------------------------------------------------------------- bounds

MaxFeed == 2       \* records the device delivers in one run
MaxCalls == 3      \* requests the controller sends in one run
MaxStreams == 2    \* coroutines simple_scan creates in one run
MaxRecords == 3    \* records waiting when a streaming run starts

\* ------------------------------------------------------- what the device sends

DescHealth == <<165, 90, 3, 0, 0, 0, 6>>
DescHealthMulti == <<165, 90, 3, 0, 0, 64, 6>>
DescScan == <<165, 90, 5, 0, 0, 64, 129>>
DescScanSingle == <<165, 90, 5, 0, 0, 0, 129>>
DescBadSync0 == <<0, 90, 5, 0, 0, 0, 64>>
DescBadSync1 == <<165, 0, 5, 0, 0, 0, 64>>
DescMode2 == <<165, 90, 5, 0, 0, 128, 129>>

HealthGood == <<0, 0, 0>>
HealthWarning == <<1, 0, 0>>
HealthError == <<2, 1, 2>>
HealthUnknown == <<3, 0, 0>>

Record1 == <<60, 85, 22, 136, 19>>
Record2 == <<61, 91, 1, 34, 1>>
Record3 == <<60, 85, 22, 0, 0>>
Records == {Record1, Record2, Record3}
FeedRecords == {Record1, Record3}

\* the records of one sweep, in the order the device delivers them
FeedOrder == <<Record1, Record2, Record3>>

\* what may arrive while healthcheck waits in serial.read: nothing (timeout),
\* a descriptor alone, a descriptor and a payload
HealthResponses ==
    {<<>>, DescHealth, DescBadSync0, DescBadSync1, DescMode2,
     DescHealth \o HealthGood, DescHealth \o HealthWarning, DescHealth \o HealthError,
     DescHealth \o HealthUnknown, DescHealthMulti \o HealthGood,
     DescHealthMulti \o HealthError}

\* what may arrive while simple_scan waits in serial.read
ScanResponses ==
    {<<>>, DescScan, DescScanSingle, DescBadSync0, DescBadSync1, DescMode2,
     DescScan \o Record1}

\* the responses of a device that answers each request as the protocol says,
\* healthy or not
UsualHealthResponses == {DescHealth \o HealthGood, DescHealth \o HealthError}
UsualScanResponses == {DescScan, DescScanSingle}

\* the device delivers a scan record into the input buffer of the open port
DeviceSend(record) ==
    /\ fed < MaxFeed
    /\ port.is_open
    /\ rx' = rx \o record
    /\ fed' = fed + 1
    /\ UNCHANGED <<printer, arg, ret, constructed, tx, stop_event, output_queue, unfinished_tasks,
                   dicts, output_dict, streams, running, last, port, seen>>

\* ------------------------------------------------------------- scanner.py

\* the parameters of multi_response_handler, none of which has a default
multi_response_handler_params ==
    <<"serial", "stop_event", "output_queue", "length", "output_dict">>

\* Response.multi_response_handler(*args, **kwargs) binds its parameters:
\* the positional arguments fill the first ones, the keywords must be
\* exactly the others. Otherwise the call raises TypeError (missing
\* argument, unexpected keyword, or multiple values for one parameter)
multi_response_handler_binds(nargs, kwargs) ==
    /\ nargs <= Len(multi_response_handler_params)
    /\ kwargs = {multi_response_handler_params[k] :
                    k \in (nargs + 1)..Len(multi_response_handler_params)}

\* Response.handle_response: which branch the call takes, from the number of
\* positional arguments and the set of keyword names
handle_response(nargs, kwargs) ==
    IF nargs + Cardinality(kwargs) = 2 /\ {"serial", "length"} \subseteq kwargs
    THEN "parse_single_response"
    ELSE IF {"serial", "stop_event", "output_queue", "length"} \subseteq kwargs
    THEN IF multi_response_handler_binds(nargs, kwargs) THEN "multi_response_handler"
         ELSE "TypeError"
    ELSE "NotImplementedError"

\* Response.handle_response called with nargs positional arguments and the
\* keywords kwargs, length being the value of the keyword length and buf the
\* bytes waiting on the port serial: the exception raised, the bytes
\* returned, the sizes serial.read was asked for, and whether a coroutine
\* object was returned (created by the call of the async function, not
\* started)
handle_response_call(nargs, kwargs, length, buf) ==
    LET branch == handle_response(nargs, kwargs)
        R(exc, value, reads, coroutine) ==
            [exc |-> exc, value |-> value, reads |-> reads, coroutine |-> coroutine,
             rest |-> IF reads = <<>> THEN buf ELSE ReadRest(buf, length)]
    IN  IF branch = "parse_single_response"
        THEN R("None", ReadData(buf, length), <<length>>, FALSE)
        ELSE IF branch = "multi_response_handler"
        THEN R("None", <<>>, <<>>, TRUE)
        ELSE R(branch, <<>>, <<>>, FALSE)

\* the outcome of a controller call: the exception it raised ("None": it
\* returned) and the error code that exception carries (every raise of
\* scanner.py is a bare class, so none), the requests it sent, the sizes it
\* asked serial.read for, the descriptor bytes it read and what they parsed
\* to, the payload it read, the coroutine it returned (0: none), and the
\* input buffer it leaves; trace is the calls it made on the port and on the
\* clock, in program order
Outcome(op, exc, sent, reads, descriptor, desc, response, stream, rest, trace) ==
    [call |-> [op |-> op, exc |-> exc, error_code |-> None, sent |-> sent,
               reads |-> reads, descriptor |-> descriptor, desc |-> desc,
               response |-> response, stream |-> stream, trace |-> trace],
     rest |-> rest]

NoDesc == Raise("None", "none")

\* a call whose first serial.write finds the port closed: pyserial raises
\* PortNotOpenError, nothing is sent or read
PortNotOpen(op, buf) ==
    Outcome(op, "PortNotOpenError", <<>>, <<>>, <<>>, NoDesc, <<>>, 0, buf, <<>>)

\* line 46 of healthcheck: if status == 2
HealthFails_never(status) == FALSE
HealthFails(status) == status = ERROR

\* RPLidar.healthcheck on the input buffer buf of an open port. serial.read
\* returns bytes, b"" when the timeout expires with nothing received, so
\* neither `response is None` (line 39) nor `type(response) != bytes` (line 42)
\* is ever true
healthcheck(buf) ==
    LET request    == create_request(RequestBytes.GET_HEALTH_BYTE)
        descriptor == ReadData(buf, RESPONSE_DESCRIPTOR_LENGTH)
        buf1       == ReadRest(buf, RESPONSE_DESCRIPTOR_LENGTH)
        desc       == parse_response_descriptor(descriptor)
        response   == ReadData(buf1, desc.length)
        buf2       == ReadRest(buf1, desc.length)
        reads1     == <<RESPONSE_DESCRIPTOR_LENGTH>>
        reads2     == <<RESPONSE_DESCRIPTOR_LENGTH, desc.length>>
        Out(exc, reads, resp, rest) ==
            Outcome("healthcheck", exc, send_request(<<>>, request), reads, descriptor, desc, resp, 0, rest,
                    send_request_calls(request) \o read_calls(reads))
    IN  IF desc.exc # "None" THEN Out(desc.exc, reads1, <<>>, buf1)
        ELSE IF handle_response(0, {"serial", "length"}) # "parse_single_response"
        THEN Out("TypeError", reads1, <<>>, buf1)
        ELSE IF Len(response) = 0 THEN Out("IndexError", reads2, response, buf2)
        ELSE IF At(response, 0) \notin HealthStatus THEN Out("ValueError", reads2, response, buf2)
        ELSE IF HealthFails(At(response, 0)) THEN Out("Exception", reads2, response, buf2)
        ELSE Out("None", reads2, response, buf2)

\* RPLidar._initialize on the connection p with input buffer buf, the port
\* being one that opens: self._serial.connect(), then self.healthcheck()
_initialize_no_healthcheck(p, buf) ==
    [call |-> Outcome("__init__", "None", <<>>, <<>>, <<>>, NoDesc, <<>>, 0, buf,
                      <<Ev("connect", <<>>)>>).call,
     rest |-> buf,
     port |-> connect(p)]
_initialize(p, buf) ==
    LET out == healthcheck(buf)
    IN  [call |-> [out.call EXCEPT !.op = "__init__",
                                   !.trace = <<Ev("connect", <<>>)>> \o @],
         rest |-> out.rest,
         port |-> connect(p)]

\* RPLidar.__init__: the fields, then _initialize
Construct(resp) ==
    /\ constructed = "no"
    /\ LET out == _initialize(port, rx \o resp)
       IN  /\ last' = out.call
           /\ rx' = out.rest
           /\ tx' = tx \o out.call.sent
           /\ constructed' = IF out.call.exc = "None" THEN "yes" ELSE "failed"
           /\ port' = out.port
    /\ stop_event' = FALSE
    /\ output_queue' = <<>>
    /\ unfinished_tasks' = 0
    /\ output_dict' = 0
    /\ UNCHANGED <<printer, arg, ret, fed, dicts, streams, running, seen>>

Healthcheck(resp) ==
    /\ constructed = "yes"
    /\ running = 0
    /\ Len(tx) < MaxCalls
    /\ LET out == IF port.is_open THEN healthcheck(rx \o resp)
                  ELSE PortNotOpen("healthcheck", rx)
       IN  /\ last' = out.call
           /\ rx' = out.rest
           /\ tx' = tx \o out.call.sent
    /\ UNCHANGED <<printer, arg, ret, constructed, fed, stop_event, output_queue, unfinished_tasks,
                   dicts, output_dict, streams, running, port, seen>>

\* RPLidar.shutdown on the connection p: the Stop request, then disconnect
shutdown_disconnect_first(p) ==
    LET request == create_request(RequestBytes.STOP_BYTE)
    IN  [sent  |-> <<>>,
         trace |-> <<Ev("disconnect", <<>>)>>,
         exc   |-> "PortNotOpenError",
         port  |-> disconnect(p)]
shutdown(p) ==
    LET request == create_request(RequestBytes.STOP_BYTE)
    IN  [sent  |-> send_request(<<>>, request),
         trace |-> send_request_calls(request) \o <<Ev("disconnect", <<>>)>>,
         exc   |-> "None",
         port  |-> disconnect(p)]

Shutdown ==
    /\ constructed = "yes"
    /\ running = 0
    /\ Len(tx) < MaxCalls
    /\ IF port.is_open
       THEN LET out == shutdown(port)
            IN  /\ last' = Outcome("shutdown", out.exc, out.sent, <<>>, <<>>, NoDesc, <<>>, 0,
                                   rx, out.trace).call
                /\ tx' = tx \o out.sent
                /\ port' = out.port
       ELSE /\ last' = PortNotOpen("shutdown", rx).call
            /\ UNCHANGED <<tx, port>>
    /\ UNCHANGED <<printer, arg, ret, constructed, rx, fed, stop_event, output_queue, unfinished_tasks,
                   dicts, output_dict, streams, running, seen>>

\* RPLidar.reset: the Stop request, the Reset request, time.sleep(0.5)
reset_reset_first ==
    LET stop_request  == create_request(RequestBytes.STOP_BYTE)
        reset_request == create_request(RequestBytes.RESET_BYTE)
    IN  [sent  |-> send_request(send_request(<<>>, reset_request), stop_request),
         trace |-> send_request_calls(reset_request) \o send_request_calls(stop_request)
                   \o <<Ev("sleep", <<500>>)>>]
reset ==
    LET stop_request  == create_request(RequestBytes.STOP_BYTE)
        reset_request == create_request(RequestBytes.RESET_BYTE)
    IN  [sent  |-> send_request(send_request(<<>>, stop_request), reset_request),
         trace |-> send_request_calls(stop_request) \o send_request_calls(reset_request)
                   \o <<Ev("sleep", <<500>>)>>]

Reset ==
    /\ constructed = "yes"
    /\ running = 0
    /\ Len(tx) + 2 <= MaxCalls
    /\ IF port.is_open
       THEN /\ last' = Outcome("reset", "None", reset.sent, <<>>, <<>>, NoDesc, <<>>, 0,
                               rx, reset.trace).call
            /\ tx' = tx \o reset.sent
       ELSE /\ last' = PortNotOpen("reset", rx).call
            /\ UNCHANGED tx
    /\ UNCHANGED <<printer, arg, ret, constructed, rx, fed, stop_event, output_queue, unfinished_tasks,
                   dicts, output_dict, streams, running, port, seen>>

\* line 79 of simple_scan: if mode != protocol.ResponseMode.MUTLI_RESPONSE
ScanModeRejected_never(mode) == FALSE
ScanModeRejected(mode) == mode # MUTLI_RESPONSE

\* RPLidar.get_info: raise NotImplementedError, whatever the state
get_info_sends_request ==
    LET request == create_request(RequestBytes.GET_INFO_BYTE)
    IN  Outcome("get_info", "NotImplementedError", send_request(<<>>, request), <<>>, <<>>,
                NoDesc, <<>>, 0, <<>>, send_request_calls(request)).call
get_info ==
    Outcome("get_info", "NotImplementedError", <<>>, <<>>, <<>>, NoDesc, <<>>, 0, <<>>, <<>>).call

GetInfo ==
    /\ constructed = "yes"
    /\ running = 0
    /\ last' = get_info
    /\ tx' = tx \o get_info.sent
    /\ UNCHANGED <<printer, arg, ret, constructed, rx, fed, stop_event, output_queue, unfinished_tasks,
                   dicts, output_dict, streams, running, port, seen>>

\* RPLidar._init_return_dict: self.output_dict = {}, a new dict object
_init_return_dict_keep(ds) == Append(ds, IF ds = <<>> THEN EmptyDict ELSE ds[Len(ds)])
_init_return_dict(ds) == Append(ds, EmptyDict)

\* RPLidar.simple_scan on the input buffer buf of an open port; the coroutine
\* it creates is number new
simple_scan(buf, new) ==
    LET request    == create_request(RequestBytes.SCAN_BYTE)
        descriptor == ReadData(buf, RESPONSE_DESCRIPTOR_LENGTH)
        buf1       == ReadRest(buf, RESPONSE_DESCRIPTOR_LENGTH)
        desc       == parse_response_descriptor(descriptor)
        reads1     == <<RESPONSE_DESCRIPTOR_LENGTH>>
        Out(exc, stream) ==
            Outcome("simple_scan", exc, send_request(<<>>, request), reads1, descriptor, desc, <<>>, stream, buf1,
                    send_request_calls(request) \o read_calls(reads1))
    IN  IF desc.exc # "None" THEN Out(desc.exc, 0)
        ELSE IF ScanModeRejected(desc.mode) THEN Out("Exception", 0)
        ELSE IF handle_response(0, {"serial", "stop_event", "output_queue", "length",
                                    "output_dict"}) # "multi_response_handler"
        THEN Out("TypeError", 0)
        ELSE Out("None", new)

SimpleScan(make_return_dict, resp) ==
    /\ constructed = "yes"
    /\ running = 0
    /\ Len(tx) < MaxCalls
    /\ Len(dicts) < MaxCalls
    /\ Len(streams) < MaxStreams
    /\ LET out  == IF port.is_open THEN simple_scan(rx \o resp, Len(streams) + 1)
                   ELSE PortNotOpen("simple_scan", rx)
           dict == IF make_return_dict THEN Len(dicts) + 1 ELSE output_dict
       IN  /\ dicts' = IF make_return_dict THEN _init_return_dict(dicts) ELSE dicts
           /\ output_dict' = dict
           /\ last' = out.call
           /\ rx' = out.rest
           /\ tx' = tx \o out.call.sent
           /\ streams' = IF out.call.stream = 0 THEN streams
                         ELSE Append(streams, ScanStream(out.call.desc.length, dict,
                                                         make_return_dict))
    /\ UNCHANGED <<printer, arg, ret, constructed, fed, stop_event, output_queue, unfinished_tasks,
                   running, port, seen>>

\* the value of the attribute lidar.output_dict, d being self.output_dict:
\* the dict object itself, no new object
output_dict_attr_copy(ds, d) ==
    IF d = 0 THEN [dicts |-> ds, ref |-> 0]
    ELSE [dicts |-> Append(ds, ds[d]), ref |-> Len(ds) + 1]
output_dict_attr(ds, d) == [dicts |-> ds, ref |-> d]

NothingSeen == [ref |-> 0, at |-> EmptyDict]

\* no queue_printer task was created
NoPrinter == [pc |-> "none", got |-> <<>>]

\* a reader takes lidar.output_dict, as the example program does to print it
ReadSnapshot ==
    /\ constructed = "yes"
    /\ running = 0
    /\ seen.ref # output_dict
    /\ LET got == output_dict_attr(dicts, output_dict)
       IN  /\ dicts' = got.dicts
           /\ seen' = [ref |-> got.ref,
                       at  |-> IF got.ref = 0 THEN EmptyDict ELSE got.dicts[got.ref]]
    /\ UNCHANGED <<printer, arg, ret, constructed, rx, tx, fed, stop_event, output_queue,
                   unfinished_tasks, output_dict, streams, running, last, port>>

NotCalled == [called |-> FALSE, value |-> <<>>]
Returned(v) == [called |-> TRUE, value |-> v]

NoCall == Outcome("none", "None", <<>>, <<>>, <<>>, NoDesc, <<>>, 0, <<>>, <<>>).call

Init ==
    /\ arg = <<>>
    /\ ret = NotCalled
    /\ constructed = "no"
    /\ rx = <<>>
    /\ tx = <<>>
    /\ fed = 0
    /\ stop_event = FALSE
    /\ output_queue = <<>>
    /\ unfinished_tasks = 0
    /\ dicts = <<>>
    /\ output_dict = 0
    /\ streams = <<>>
    /\ running = 0
    /\ last = NoCall
    /\ port = NotConnected
    /\ seen = NothingSeen
    /\ printer = NoPrinter

Next ==
    \/ \E record \in FeedRecords : DeviceSend(record)
    \/ \E resp \in UsualHealthResponses : Construct(resp)
    \/ \E resp \in UsualHealthResponses : Healthcheck(resp)
    \/ \E make_return_dict \in BOOLEAN, resp \in UsualScanResponses :
          SimpleScan(make_return_dict, resp)
    \/ Shutdown
    \/ Reset
    \/ \E i \in 1..MaxStreams : MultiResponseLoop(i)
    \/ \E i \in 1..MaxStreams : MultiResponseWakeEmpty(i)
    \/ \E i \in 1..MaxStreams : MultiResponseWakeShort(i)
    \/ SetStop

Spec == Init /\ [][Next]_vars

\* the controller's calls alone, against every response of the device
NextCalls ==
    \/ \E record \in FeedRecords : DeviceSend(record)
    \/ \E resp \in HealthResponses : Construct(resp)
    \/ \E resp \in HealthResponses : Healthcheck(resp)
    \/ \E make_return_dict \in BOOLEAN, resp \in ScanResponses :
          SimpleScan(make_return_dict, resp)
    \/ Shutdown
    \/ Reset

SpecCalls == Init /\ [][NextCalls]_vars

\* every method of the controller, called in any order on a device that
\* answers as the protocol says, the stop event being set at any moment
NextApi ==
    \/ \E resp \in UsualHealthResponses : Construct(resp)
    \/ \E resp \in UsualHealthResponses : Healthcheck(resp)
    \/ \E make_return_dict \in BOOLEAN, resp \in UsualScanResponses :
          SimpleScan(make_return_dict, resp)
    \/ Shutdown
    \/ Reset
    \/ GetInfo
    \/ SetStop

SpecApi == Init /\ [][NextApi]_vars

\* a scanning session: the controller as RPLidar(...) leaves it on a healthy
\* device, scans started on it, the coroutines they return run as tasks, and
\* a reader of lidar.output_dict
InitScan ==
    LET out == _initialize(NotConnected, DescHealth \o HealthGood)
    IN  /\ arg = <<>>
        /\ ret = NotCalled
        /\ constructed = "yes"
        /\ rx = out.rest
        /\ tx = out.call.sent
        /\ fed = 0
        /\ stop_event = FALSE
        /\ output_queue = <<>>
        /\ unfinished_tasks = 0
        /\ dicts = <<>>
        /\ output_dict = 0
        /\ streams = <<>>
        /\ running = 0
        /\ last = out.call
        /\ port = out.port
        /\ seen = NothingSeen
        /\ printer = NoPrinter

NextScan ==
    \/ \E record \in {FeedOrder[(fed % Len(FeedOrder)) + 1]} : DeviceSend(record)
    \/ \E make_return_dict \in BOOLEAN, resp \in UsualScanResponses :
          SimpleScan(make_return_dict, resp)
    \/ ReadSnapshot
    \/ \E i \in 1..MaxStreams : MultiResponseLoop(i)
    \/ \E i \in 1..MaxStreams : MultiResponseWakeEmpty(i)
    \/ \E i \in 1..MaxStreams : MultiResponseWakeShort(i)
    \/ SetStop

SpecScan == InitScan /\ [][NextScan]_vars

\* ------------------------------------------------------- examples/run.py

\* queue_printer at its while test, the queue holding q and got printed so
\* far: it ends when the event is set, sleeps 0.1 s when fewer than 10 items
\* are queued, and otherwise takes an item, which q.get() returns without
\* suspending when the queue is not empty, prints it and tests again
RECURSIVE queue_printer_test(_, _, _)
queue_printer_test(stop, q, got) ==
    IF stop THEN [pc |-> "done", q |-> q, got |-> got]
    ELSE IF Len(q) < 10 THEN [pc |-> "sleep", q |-> q, got |-> got]
    ELSE queue_printer_test(stop, Tail(q), Append(got, Head(q)))

\* queue_printer at `out = await q.get()`: on an empty queue it suspends
\* until an item is put; else it takes the oldest item, prints it and goes to
\* the while test
queue_printer_get_newest(stop, q, got) ==
    IF q = <<>> THEN [pc |-> "get", q |-> q, got |-> got]
    ELSE queue_printer_test(stop, SubSeq(q, 1, Len(q) - 1), Append(got, q[Len(q)]))
queue_printer_get(stop, q, got) ==
    IF q = <<>> THEN [pc |-> "get", q |-> q, got |-> got]
    ELSE queue_printer_test(stop, Tail(q), Append(got, Head(q)))

\* the printer runs from where it was suspended to its next suspension; it
\* never calls task_done
QueuePrinterRuns(r) ==
    /\ printer' = [pc |-> r.pc, got |-> r.got]
    /\ output_queue' = r.q
    /\ UNCHANGED <<arg, ret, constructed, rx, tx, fed, stop_event, unfinished_tasks,
                   dicts, output_dict, streams, running, last, port, seen>>

\* the task group starts queue_printer
QueuePrinterStart ==
    /\ running = 0
    /\ printer.pc = "created"
    /\ QueuePrinterRuns(queue_printer_test(stop_event, output_queue, printer.got))

\* asyncio.sleep(0.1) returns: the printer goes on to q.get() without
\* testing the event
QueuePrinterWake ==
    /\ running = 0
    /\ printer.pc = "sleep"
    /\ QueuePrinterRuns(queue_printer_get(stop_event, output_queue, printer.got))

\* q.get() returns to the printer that waited for an item
QueuePrinterGet ==
    /\ running = 0
    /\ printer.pc = "get"
    /\ output_queue # <<>>
    /\ QueuePrinterRuns(queue_printer_get(stop_event, output_queue, printer.got))

\* asyncio.TaskGroup: when a task ends with an exception the group cancels
\* the tasks that have not ended; the printer, suspended, ends cancelled
TaskGroupAbort ==
    /\ running = 0
    /\ streams[1].pc = "raised"
    /\ printer.pc \in {"created", "sleep", "get"}
    /\ printer' = [printer EXCEPT !.pc = "cancelled"]
    /\ UNCHANGED <<arg, ret, constructed, rx, tx, fed, stop_event, output_queue,
                   unfinished_tasks, dicts, output_dict, streams, running, last, port, seen>>

\* wait_and_stop: event.set() after its sleep, unless the group cancelled it
WaitAndStop ==
    /\ streams[1].pc # "raised"
    /\ SetStop

\* main(lidar) of the example: lidar = RPLidar(...) succeeded, and the task
\* group was given wait_and_stop, queue_printer and the coroutine returned
\* by lidar.simple_scan(make_return_dict=True)
InitExample ==
    LET init == _initialize(NotConnected, DescHealth \o HealthGood)
        scan == simple_scan(init.rest \o DescScan, 1)
    IN  /\ arg = <<>>
        /\ ret = NotCalled
        /\ constructed = "yes"
        /\ rx = scan.rest
        /\ tx = init.call.sent \o scan.call.sent
        /\ fed = 0
        /\ stop_event = FALSE
        /\ output_queue = <<>>
        /\ unfinished_tasks = 0
        /\ dicts = _init_return_dict(<<>>)
        /\ output_dict = 1
        /\ streams = <<ScanStream(scan.call.desc.length, 1, TRUE)>>
        /\ running = 0
        /\ last = scan.call
        /\ port = init.port
        /\ seen = NothingSeen
        /\ printer = [pc |-> "created", got |-> <<>>]

NextExample ==
    \/ \E record \in {FeedOrder[(fed % Len(FeedOrder)) + 1]} : DeviceSend(record)
    \/ MultiResponseLoop(1)
    \/ MultiResponseWakeEmpty(1)
    \/ MultiResponseWakeShort(1)
    \/ WaitAndStop
    \/ QueuePrinterStart
    \/ QueuePrinterWake
    \/ QueuePrinterGet
    \/ TaskGroupAbort

SpecExample == InitExample /\ [][NextExample]_vars

\* ------------------------------------------------ the SerialConnection alone

\* connect() on a SerialConnection, the port being one that opens or not
SerialConnect(opens) ==
    /\ constructed = "no"
    /\ port' = IF opens THEN connect(port) ELSE connect_failed(port)
    /\ last' = Outcome("connect", IF opens THEN "None" ELSE "ConnectionError", <<>>, <<>>,
                       <<>>, NoDesc, <<>>, 0, rx, connect_calls(port)).call
    /\ UNCHANGED <<printer, arg, ret, constructed, rx, tx, fed, stop_event, output_queue,
                   unfinished_tasks, dicts, output_dict, streams, running, seen>>

\* disconnect() on a SerialConnection
SerialDisconnect ==
    /\ constructed = "no"
    /\ port' = disconnect(port)
    /\ last' = Outcome("disconnect", is_open_raises(port), <<>>, <<>>, <<>>, NoDesc, <<>>, 0,
                       rx, disconnect_calls(port)).call
    /\ UNCHANGED <<printer, arg, ret, constructed, rx, tx, fed, stop_event, output_queue,
                   unfinished_tasks, dicts, output_dict, streams, running, seen>>

\* read(n) on a SerialConnection, which it inherits from Serial: on an open
\* port up to n of the bytes received, fewer when the timeout expires; on a
\* port that is not open PortNotOpenError
SerialRead(n) ==
    /\ constructed = "no"
    /\ LET out == IF port.is_open
                  THEN Outcome("read", "None", <<>>, <<n>>, <<>>, NoDesc, ReadData(rx, n),
                               0, ReadRest(rx, n), read_calls(<<n>>))
                  ELSE IF is_open_raises(port) # "None"
                  THEN Outcome("read", is_open_raises(port), <<>>, <<>>, <<>>, NoDesc, <<>>,
                               0, rx, <<>>)
                  ELSE PortNotOpen("read", rx)
       IN  /\ last' = out.call
           /\ rx' = out.rest
    /\ UNCHANGED <<printer, arg, ret, constructed, tx, fed, stop_event, output_queue,
                   unfinished_tasks, dicts, output_dict, streams, running, port, seen>>

\* a SerialConnection used directly, as test_serial_handler.py does, with a
\* device that sends while the port is open
NextSerial ==
    \/ \E opens \in BOOLEAN : SerialConnect(opens)
    \/ SerialDisconnect
    \/ \E n \in {5, 7} : SerialRead(n)
    \/ \E record \in FeedRecords : DeviceSend(record)

SpecSerial == Init /\ [][NextSerial]_vars

\* ----------------------------------------------- the codec functions alone

Commands == DOMAIN RequestBytes

\* descriptors as serial.read(7) may return them: every combination of these
\* byte values, and the short reads of a timeout
DescriptorInputs ==
    LET full == {<<b0, b1, b2, b3, b4, b5, b6>> :
                    b0 \in {165, 0, 90}, b1 \in {90, 0, 165}, b2 \in {0, 5, 255},
                    b3 \in {0, 1}, b4 \in {0, 255},
                    b5 \in {0, 5, 63, 64, 127, 128, 192, 255}, b6 \in {0, 64, 129, 255}}
    IN  full \cup {Slice(DescScan, 0, n) : n \in 0..6}

\* 5-byte scan records: combinations of these byte values, and every value of
\* the low angle byte with each of the high angle bytes
RecordInputs ==
    {<<b0, b1, b2, b3, b4>> :
        b0 \in {0, 60, 61, 255}, b1 \in {0, 1, 85, 91, 254, 255},
        b2 \in {0, 1, 22, 180, 255}, b3 \in {0, 1, 136, 255}, b4 \in {0, 19, 255}}
    \cup {<<60, b1, b2, 136, 19>> : b1 \in 0..255, b2 \in {0, 1, 22, 180, 255}}

\* what serial.read(5) may return: records with every value of byte 0, of
\* the distance bytes in turn, and their prefixes, the short reads of a timeout
ResponseInputs ==
    LET whole == {<<b0, 85, 22, 136, 19>> : b0 \in 0..255}
                 \cup {<<60, 85, 22, b3, b4>> : b3 \in 0..255, b4 \in {0, 1, 19, 128, 255}}
    IN  whole \cup {Slice(Record1, 0, n) : n \in 0..4}

\* every 15-bit raw angle
RawAngles == 0..32767

\* 3-byte health payloads
PayloadInputs ==
    {<<b0, b1, b2>> : b0 \in {0, 1, 2}, b1 \in {0, 1, 255}, b2 \in {0, 2, 255}}

CreateRequest ==
    /\ arg.f = "create_request"
    /\ ~ret.called
    /\ ret' = Returned(create_request(RequestBytes[arg.x]))
    /\ UNCHANGED <<arg, ctrlVars>>

ParseResponseDescriptor ==
    /\ arg.f = "parse_response_descriptor"
    /\ ~ret.called
    /\ ret' = Returned(parse_response_descriptor(arg.x))
    /\ UNCHANGED <<arg, ctrlVars>>

ParseSimpleScanResult ==
    /\ arg.f = "_parse_simple_scan_result"
    /\ ~ret.called
    /\ ret' = Returned(_parse_simple_scan_result(arg.x))
    /\ UNCHANGED <<arg, ctrlVars>>

ParseSimpleScanCall ==
    /\ arg.f = "parse_simple_scan_call"
    /\ ~ret.called
    /\ ret' = Returned(parse_simple_scan_call(arg.x))
    /\ UNCHANGED <<arg, ctrlVars>>

\* the angle of raw decoded, quantized again, and once more
Requantize ==
    /\ arg.f = "quantize"
    /\ ~ret.called
    /\ LET a  == AngleOf(arg.x)
           q1 == Quantize(a, 100)
           q2 == Quantize(q1, 100)
       IN  ret' = Returned([a_deg |-> a, again |-> q1, twice |-> q2])
    /\ UNCHANGED <<arg, ctrlVars>>

ParseErrorCode ==
    /\ arg.f = "parse_error_code"
    /\ ~ret.called
    /\ ret' = Returned(parse_error_code(arg.x))
    /\ UNCHANGED <<arg, ctrlVars>>

\* argument shapes of handle_response: up to two positional arguments and
\* any set of these keyword names
KeywordNames == {"serial", "length", "stop_event", "output_queue", "output_dict", "timeout"}

HandleResponseInputs ==
    [nargs : 0..2, kwargs : SUBSET KeywordNames, length : {3, 5},
     buf : {<<>>, Record1, Record1 \o Record2}]

HandleResponse ==
    /\ arg.f = "handle_response"
    /\ ~ret.called
    /\ ret' = Returned(handle_response_call(arg.x.nargs, arg.x.kwargs, arg.x.length, arg.x.buf))
    /\ UNCHANGED <<arg, ctrlVars>>

InitCodec ==
    /\ arg \in [f : {"create_request"}, x : Commands]
               \cup [f : {"parse_response_descriptor"}, x : DescriptorInputs]
               \cup [f : {"_parse_simple_scan_result"}, x : RecordInputs]
               \cup [f : {"parse_error_code"}, x : PayloadInputs]
               \cup [f : {"quantize"}, x : RawAngles]
               \cup [f : {"parse_simple_scan_call"}, x : ResponseInputs]
               \cup [f : {"handle_response"}, x : HandleResponseInputs]
    /\ ret = NotCalled
    /\ constructed = "no"
    /\ rx = <<>>
    /\ tx = <<>>
    /\ fed = 0
    /\ stop_event = FALSE
    /\ output_queue = <<>>
    /\ unfinished_tasks = 0
    /\ dicts = <<>>
    /\ output_dict = 0
    /\ streams = <<>>
    /\ running = 0
    /\ last = NoCall
    /\ port = NotConnected
    /\ seen = NothingSeen
    /\ printer = NoPrinter

NextCodec ==
    \/ CreateRequest
    \/ ParseResponseDescriptor
    \/ ParseSimpleScanResult
    \/ ParseErrorCode
    \/ Requantize
    \/ ParseSimpleScanCall
    \/ HandleResponse

SpecCodec == InitCodec /\ [][NextCodec]_vars

\* ---------------------------------------------- the streaming coroutine alone

RECURSIVE Concat(_)
Concat(ss) == IF ss = <<>> THEN <<>> ELSE Head(ss) \o Concat(Tail(ss))

RecordSeqs == UNION {[1..n -> Records] : n \in 0..MaxRecords}

\* bytes of a record still on its way when the run starts
Tails == {<<>>, <<60, 85>>}

\* multi_response_handler(serial, stop_event, output_queue, length=5,
\* output_dict) called with arg.records and arg.tail waiting in the serial
\* buffer, output_dict being {} or None, as test_multi_response_handler does
InitStream ==
    /\ arg \in [records : RecordSeqs, tail : Tails, dict : {0, 1}]
    /\ ret = NotCalled
    /\ constructed = "yes"
    /\ rx = Concat(arg.records) \o arg.tail
    /\ tx = <<>>
    /\ fed = 0
    /\ stop_event = FALSE
    /\ output_queue = <<>>
    /\ unfinished_tasks = 0
    /\ dicts = IF arg.dict = 0 THEN <<>> ELSE <<EmptyDict>>
    /\ output_dict = arg.dict
    /\ streams = <<NewStream(5, arg.dict)>>
    /\ running = 0
    /\ last = NoCall
    /\ port = connect(NotConnected)
    /\ seen = NothingSeen
    /\ printer = NoPrinter

NextStream ==
    \/ MultiResponseLoop(1)
    \/ MultiResponseWakeEmpty(1)
    \/ MultiResponseWakeShort(1)
    \/ SetStop

SpecStream == InitStream /\ [][NextStream]_vars

\* the event loop runs a coroutine that is ready, and a sleep that was started
\* returns; nothing obliges anyone to set stop_event. The records waiting
\* are the first n of the device's feed: only their number matters to how
\* the loop ends
InitStreamFair ==
    /\ InitStream
    /\ \E n \in 0..MaxRecords :
          arg.records = [k \in 1..n |-> FeedOrder[((k - 1) % Len(FeedOrder)) + 1]]

SpecStreamFair ==
    /\ InitStreamFair
    /\ [][NextStream]_vars
    /\ WF_vars(MultiResponseLoop(1))
    /\ WF_vars(MultiResponseWakeEmpty(1))
    /\ WF_vars(MultiResponseWakeShort(1))

\* ------------------------------------------------------------------ claims

\* the sample the streaming loop publishes for a 5-byte record, with the raw
\* 16-bit distance field tested directly
RawDistance(record) == record[4] + 256 * record[5]
SampleOf(record) ==
    LET r == _parse_simple_scan_result(record)
    IN  [q |-> r.q, a_deg |-> r.a_deg,
         d_mm |-> IF RawDistance(record) = 0 THEN None ELSE Some(r.d_mm)]

\* the streaming coroutine has left its while loop (returned, or raised in
\* task_done) after reading all that was waiting, which was whole records
ExitedAfterAllRecords ==
    /\ streams[1].pc \in {"done", "raised"}
    /\ arg.tail = <<>>
    /\ rx = <<>>

\* C1: in SpecStream, when the N waiting records were all read before the
\* stop event was seen, exactly N samples were published, in order, and the
\* snapshot holds exactly the angles of those samples, each with the distance
\* of the last record of that angle.
C1_StreamPublishesEveryRecord ==
    LET N       == Len(arg.records)
        keys    == {SampleOf(arg.records[i]).a_deg : i \in 1..N}
        lastOf(k) == CHOOSE i \in 1..N :
                        /\ SampleOf(arg.records[i]).a_deg = k
                        /\ \A j \in 1..N : SampleOf(arg.records[j]).a_deg = k => j <= i
    IN  ExitedAfterAllRecords =>
            /\ Len(output_queue) = N
            /\ \A i \in 1..N : output_queue[i] = SampleOf(arg.records[i])
            /\ arg.dict # 0 =>
                  /\ DOMAIN dicts[arg.dict] = keys
                  /\ \A k \in keys :
                        dicts[arg.dict][k] = SampleOf(arg.records[lastOf(k)]).d_mm

\* C1 witness: three records of two angles were read, then the loop returned
C1_Witness ==
    /\ ExitedAfterAllRecords
    /\ streams[1].pc = "done"
    /\ Len(arg.records) = 3
    /\ Len(output_queue) = 3
    /\ arg.dict = 1
    /\ Cardinality(DOMAIN dicts[1]) = 2

\* C2: a descriptor A5 5A .. whose size/mode field V (bytes 2..5, little
\* endian) has top two bits 0 or 1 parses to length V mod 2^30 and mode
\* V div 2^30; A5 5A 05 00 00 00 40 gives (5, Single), the field 05 00 00 40
\* gives (5, 1).
C2_DescriptorLengthAndMode ==
    (/\ arg.f = "parse_response_descriptor"
     /\ ret.called
     /\ Len(arg.x) = 7
     /\ arg.x[1] = 165 /\ arg.x[2] = 90
     /\ arg.x[6] < 128) =>
        LET V == arg.x[3] + 256 * arg.x[4] + 65536 * arg.x[5] + 16777216 * arg.x[6]
        IN  /\ ret.value.exc = "None"
            /\ ret.value.length = V % 1073741824
            /\ ret.value.mode = V \div 1073741824
            /\ arg.x = <<165, 90, 5, 0, 0, 0, 64>> =>
                  ret.value.length = 5 /\ ret.value.mode = SINGLE_RESPONSE
            /\ SubSeq(arg.x, 3, 6) = <<5, 0, 0, 64>> =>
                  ret.value.length = 5 /\ ret.value.mode = 1

\* C2 witness: a Multi descriptor of length 5 was parsed
C2_Witness ==
    /\ arg.f = "parse_response_descriptor"
    /\ ret.called
    /\ arg.x = <<165, 90, 5, 0, 0, 64, 129>>
    /\ ret.value.exc = "None"
    /\ ret.value.mode = MUTLI_RESPONSE

\* C3: a descriptor whose byte 0 is not A5 or whose byte 1 is not 5A makes
\* parse_response_descriptor raise ValueError, whatever follows.
C3_BadSyncAlwaysFails ==
    (/\ arg.f = "parse_response_descriptor"
     /\ ret.called
     /\ ~(Len(arg.x) >= 2 /\ arg.x[1] = 165 /\ arg.x[2] = 90)) =>
        /\ ret.value.exc = "ValueError"
        /\ ret.value.site = "sync"

\* C3 witness: a descriptor with a good first and a bad second sync byte, and
\* a size/mode field that would parse, was refused
C3_Witness ==
    /\ arg.f = "parse_response_descriptor"
    /\ ret.called
    /\ arg.x = <<165, 0, 5, 0, 0, 64, 129>>
    /\ ret.value.exc = "ValueError"

\* C4: the record 3C 55 16 88 13 decodes to quality 15, angle 45.33,
\* distance 1250.
C4_RegressionVector ==
    (/\ arg.f = "_parse_simple_scan_result"
     /\ ret.called
     /\ arg.x = <<60, 85, 22, 136, 19>>) =>
        ret.value = [q |-> 15, a_deg |-> 4533, d_mm |-> 125000]

\* C5: in SpecStream the i-th published sample comes from the i-th record; it
\* has no distance exactly when the record's raw distance field is zero and
\* never has distance 0, and the same holds of every snapshot entry, which
\* is the distance of the last published sample of its angle.
C5_ZeroDistanceIsNoReturn ==
    LET n == Len(output_queue)
    IN  /\ \A i \in 1..n :
              /\ output_queue[i].d_mm = None <=> RawDistance(arg.records[i]) = 0
              /\ output_queue[i].d_mm # Some(0)
        /\ arg.dict # 0 =>
              \A k \in DOMAIN dicts[arg.dict] :
                  /\ dicts[arg.dict][k] # Some(0)
                  /\ \E i \in 1..n :
                        /\ output_queue[i].a_deg = k
                        /\ \A j \in (i + 1)..n : output_queue[j].a_deg # k
                        /\ dicts[arg.dict][k] = output_queue[i].d_mm
                        /\ dicts[arg.dict][k] = None <=> RawDistance(arg.records[i]) = 0

\* C5 witness: a record with raw distance zero and one with a non-zero raw
\* distance were published, and the snapshot holds a "no return" entry
C5_Witness ==
    /\ arg.dict = 1
    /\ \E i, j \in 1..Len(output_queue) :
          /\ output_queue[i].d_mm = None
          /\ output_queue[j].d_mm # None
    /\ \E k \in DOMAIN dicts[1] : dicts[1][k] = None

\* the opcode of each command in the wire format
Opcode ==
    [STOP_BYTE |-> 37, SCAN_BYTE |-> 32, FORCE_SCAN_BYTE |-> 33, INFO_BYTE |-> 80,
     GET_HEALTH_BYTE |-> 82, RESET_BYTE |-> 64, EXPRESS_SCAN_BYTE |-> 130,
     GET_INFO_BYTE |-> 80, GET_SAMPLE_RATE |-> 89, GET_LIDAR_CONF |-> 132]

\* C10: for every command create_request returns the two bytes A5, opcode,
\* it can be applied to every command, and it leaves the transport alone.
C10_CreateRequestBytes ==
    arg.f = "create_request" =>
        /\ arg.x \in DOMAIN Opcode
        /\ ~ret.called => ENABLED CreateRequest
        /\ ret.called =>
              /\ Len(ret.value) = 2
              /\ ret.value = <<165, Opcode[arg.x]>>
              /\ rx = <<>> /\ tx = <<>>

\* C10 witness: create_request(SCAN_BYTE) returned A5 20
C10_Witness ==
    /\ arg.f = "create_request"
    /\ arg.x = "SCAN_BYTE"
    /\ ret.called
    /\ ret.value = <<165, 32>>

\* a step in which the controller made a call: every call sends a request
CallStep(op) == tx' # tx /\ last'.op = op

\* the mode bits of descriptor bytes that passed parsing: the top two bits of
\* byte 5
ModeBits(descriptor) == descriptor[6] \div 64

\* C6: simple_scan sends A5 20 and reads a 7-byte descriptor; it returns a new
\* coroutine, not yet started, exactly when the descriptor parses and reports
\* Multi; when it reports Single the call raises and no coroutine is created.
C6_ScanStreamsOnlyAfterMulti ==
    [][CallStep("simple_scan") =>
          /\ tx' = Append(tx, <<165, 32>>)
          /\ last'.reads = <<7>>
          /\ IF last'.desc.exc = "None" /\ ModeBits(last'.descriptor) = 1
             THEN /\ last'.exc = "None"
                  /\ streams' = Append(streams, streams'[Len(streams')])
                  /\ last'.stream = Len(streams')
                  /\ streams'[last'.stream].pc = "created"
             ELSE /\ last'.exc # "None"
                  /\ last'.stream = 0
                  /\ streams' = streams
          /\ (last'.desc.exc = "None" /\ ModeBits(last'.descriptor) = 0) =>
                last'.exc = "Exception"]_vars

\* C6 witness: after one scan that created a coroutine, a scan that was
\* answered with a Single descriptor failed and created none
C6_Witness ==
    /\ last.op = "simple_scan"
    /\ last.descriptor = DescScanSingle
    /\ last.exc = "Exception"
    /\ Len(streams) = 1
    /\ streams[1].pc = "created"

\* C7: healthcheck on an open port sends A5 52, parses the descriptor, asks
\* serial.read for exactly the payload length and takes the first payload byte
\* as the status: it returns for status 0 and 1 and raises for status 2.
C7_HealthStatusDecides ==
    (last.op = "healthcheck" /\ last.exc # "PortNotOpenError") =>
        /\ last.sent = <<(<<165, 82>>)>>
        /\ last.desc.exc = "None" =>
              /\ last.reads = <<7, last.desc.length>>
              /\ Len(last.response) <= last.desc.length
              /\ Len(last.response) >= 1 =>
                    /\ last.response[1] \in {0, 1} => last.exc = "None"
                    /\ last.response[1] = 2 => last.exc = "Exception"

\* C7 witness: a healthcheck read a 3-byte payload with status 2 and raised
C7_Witness ==
    /\ last.op = "healthcheck"
    /\ last.reads = <<7, 3>>
    /\ last.response = HealthError
    /\ last.exc = "Exception"

\* C8: a healthcheck whose descriptor reports Multi raises and reads no
\* payload.
C8_HealthRequiresSingle ==
    (/\ last.op = "healthcheck"
     /\ last.desc.exc = "None"
     /\ ModeBits(last.descriptor) = 1) =>
        /\ last.exc # "None"
        /\ last.reads = <<7>>
        /\ last.response = <<>>

\* C9: a healthcheck that fails on status 2 carries the error code, payload
\* bytes 1-2 little endian: 02 01 02 gives 513.
C9_HealthFaultCarriesCode ==
    (/\ last.op = "healthcheck"
     /\ last.exc = "Exception"
     /\ Len(last.response) >= 3
     /\ last.response[1] = 2) =>
        /\ last.error_code = Some(last.response[2] + 256 * last.response[3])
        /\ last.response = <<2, 1, 2>> => last.error_code = Some(513)

\* a step in which controller method op is called on an open port
OpenCall(op) ==
    /\ port.is_open
    /\ last'.op = op
    /\ (last' # last \/ tx' # tx \/ port' # port)

\* C11: reset() on an open port writes and flushes the Stop request A5 25,
\* then writes and flushes the Reset request A5 40, then sleeps 0.5 s, and
\* makes no other call on the port: it reads nothing, the input buffer is as
\* it was, and the two requests are what it adds to the wire.
C11_ResetStopThenResetThenSettle ==
    [][OpenCall("reset") =>
          /\ last'.exc = "None"
          /\ last'.trace = <<Ev("write", <<165, 37>>), Ev("flush", <<>>),
                             Ev("write", <<165, 64>>), Ev("flush", <<>>),
                             Ev("sleep", <<500>>)>>
          /\ tx' = tx \o <<(<<165, 37>>), (<<165, 64>>)>>
          /\ last'.reads = <<>>
          /\ rx' = rx]_vars

\* C11 witness: a reset returned, Stop and Reset being the last two requests
\* on the wire after the health request of the constructor
C11_Witness ==
    /\ last.op = "reset"
    /\ last.exc = "None"
    /\ tx = <<(<<165, 82>>), (<<165, 37>>), (<<165, 64>>)>>

\* C12: shutdown() on an open port writes and flushes exactly one Stop request
\* A5 25 and only then disconnects, which closes the port; it reads nothing.
C12_ShutdownStopThenDisconnect ==
    [][OpenCall("shutdown") =>
          /\ last'.exc = "None"
          /\ last'.trace = <<Ev("write", <<165, 37>>), Ev("flush", <<>>),
                             Ev("disconnect", <<>>)>>
          /\ tx' = Append(tx, <<165, 37>>)
          /\ last'.reads = <<>>
          /\ rx' = rx
          /\ ~port'.is_open]_vars

\* C12 witness: a shutdown returned, the Stop request is the last on the wire
\* and the port is closed
C12_Witness ==
    /\ last.op = "shutdown"
    /\ last.exc = "None"
    /\ tx[Len(tx)] = <<165, 37>>
    /\ ~port.is_open

\* a call of parse_response_descriptor on 7 bytes that begin A5 5A
ValidSyncDescriptor ==
    /\ arg.f = "parse_response_descriptor"
    /\ ret.called
    /\ Len(arg.x) = 7
    /\ arg.x[1] = 165 /\ arg.x[2] = 90

\* the exception class parse_response_descriptor raises for bad sync bytes
FramingErrorClass == parse_response_descriptor(DescBadSync0).exc

\* C13 (as stated): a descriptor with valid sync bytes and mode bits 2 or 3
\* makes parse_response_descriptor fail with an error of another kind than
\* the one raised for bad sync bytes.
C13_ModeErrorKindDistinct ==
    (ValidSyncDescriptor /\ arg.x[6] \div 64 \in {2, 3}) =>
        /\ ret.value.exc # "None"
        /\ ret.value.exc # FramingErrorClass

\* C13 (amended): a descriptor with valid sync bytes and mode bits 2 or 3
\* makes parse_response_descriptor raise ValueError from the ResponseMode
\* conversion, the same exception class as is raised for bad sync bytes; no
\* (length, mode) pair is returned.
C13_ModeFailsWithValueError ==
    (ValidSyncDescriptor /\ arg.x[6] \div 64 \in {2, 3}) =>
        /\ ret.value.exc = "ValueError"
        /\ ret.value.exc = FramingErrorClass
        /\ ret.value.site = "ResponseMode"

\* C13 witness: the descriptor A5 5A 05 00 00 80 81, mode bits 2, was refused
C13_Witness ==
    /\ ValidSyncDescriptor
    /\ arg.x = <<165, 90, 5, 0, 0, 128, 129>>
    /\ ret.value.exc = "ValueError"
    /\ ret.value.site = "ResponseMode"

\* C14 (as stated): the response mode is the top 2 bits of the last byte of
\* the descriptor; last byte 40 decodes as Multi.
C14_ModeFromLastByte ==
    ValidSyncDescriptor =>
        /\ arg.x[7] \div 64 \in {0, 1} =>
              /\ ret.value.exc = "None"
              /\ ret.value.mode = arg.x[7] \div 64
        /\ arg.x[7] = 64 =>
              /\ ret.value.exc = "None"
              /\ ret.value.mode = MUTLI_RESPONSE

\* C14 (amended): the size/mode field is bytes 2..5 of the descriptor, so the
\* response mode is the top 2 bits of byte 5, the last byte but one; the last
\* byte is not decoded. A descriptor with valid sync bytes whose byte 5 is 40
\* decodes as Multi whatever its last byte, and one whose byte 5 is below 40
\* decodes as Single even when its last byte is 40.
C14_ModeFromByte5 ==
    ValidSyncDescriptor =>
        /\ arg.x[6] \div 64 \in {0, 1} =>
              /\ ret.value.exc = "None"
              /\ ret.value.mode = arg.x[6] \div 64
        /\ arg.x[6] = 64 =>
              /\ ret.value.exc = "None"
              /\ ret.value.mode = MUTLI_RESPONSE
        /\ (arg.x[6] < 64 /\ arg.x[7] = 64) =>
              /\ ret.value.exc = "None"
              /\ ret.value.mode = SINGLE_RESPONSE

\* C14 witness: A5 5A 05 00 00 00 40, last byte 40, decoded as Single
C14_Witness ==
    /\ ValidSyncDescriptor
    /\ arg.x = <<165, 90, 5, 0, 0, 0, 64>>
    /\ ret.value.exc = "None"
    /\ ret.value.mode = SINGLE_RESPONSE

\* the 15-bit raw angle of a 5-byte record: bits 1..7 of byte 1 and byte 2
RawAngle(record) == (record[2] \div 2) + 128 * record[3]

\* a (in hundredths of a degree) is raw/64 degree quantized to the nearest
\* multiple m/3 of a third of a degree, rounded to 2 decimals
QuantizedAngle(a, raw) ==
    \E m \in 0..1536 :
        /\ 64 * m - 3 * raw \in -32..32
        /\ 3 * a - 100 * m \in -1..1

\* C15 (as stated): every key of the snapshot is a whole number of degrees
\* in 0..360.
C15_KeysAreIntegerBuckets ==
    \A d \in 1..Len(dicts) : \A k \in DOMAIN dicts[d] :
        /\ k % 100 = 0
        /\ k \in 0..36000

\* C15 (amended): at every point of a scan, every key of the snapshot is the
\* decoded angle_deg of a record read so far, the raw angle over 64 quantized
\* to a third of a degree and rounded to 2 decimals: the streaming loop
\* writes each decoded distance at the sample's angle as decoded, not rounded
\* to an integer degree.
C15_KeysAreDecodedAngles ==
    \A d \in 1..Len(dicts) : \A k \in DOMAIN dicts[d] :
        \E i \in 1..Len(arg.records) :
            /\ i <= Len(output_queue)
            /\ output_queue[i].a_deg = k
            /\ QuantizedAngle(k, RawAngle(arg.records[i]))

\* C15 witness: the snapshot holds the key 44.67, written for 3C 55 16 88 13
C15_Witness ==
    /\ arg.dict = 1
    /\ arg.records # <<>>
    /\ arg.records[1] = <<60, 85, 22, 136, 19>>
    /\ 4467 \in DOMAIN dicts[1]

\* C16 (as stated): the decoded angle lies in 0.0..360.0 and is the raw angle
\* over 64 quantized to a third of a degree.
C16_AngleWithin360 ==
    (arg.f = "_parse_simple_scan_result" /\ ret.called) =>
        /\ ret.value.a_deg \in 0..36000
        /\ QuantizedAngle(ret.value.a_deg, RawAngle(arg.x))

\* C16 (amended): for every 5-byte record the decoded angle_deg lies in
\* 0.0..512.0 and is the 15-bit raw angle divided by 64, quantized to the
\* nearest multiple of 1/3 degree (rounded to 2 decimals); it exceeds 360.0
\* for raw angles above 23050.
C16_AngleWithin512 ==
    (arg.f = "_parse_simple_scan_result" /\ ret.called) =>
        /\ ret.value.a_deg \in 0..51200
        /\ QuantizedAngle(ret.value.a_deg, RawAngle(arg.x))
        /\ RawAngle(arg.x) > 23050 => ret.value.a_deg > 36000

\* C16 witness: a record whose raw angle is 32767 decoded to 512.0
C16_Witness ==
    /\ arg.f = "_parse_simple_scan_result"
    /\ ret.called
    /\ RawAngle(arg.x) = 32767
    /\ ret.value.a_deg = 51200

\* a step in which a streaming coroutine published a sample: the coroutine
\* is running', the sample is the last of output_queue'
Published == Len(output_queue') = Len(output_queue) + 1
Sample == output_queue'[Len(output_queue')]

\* C17: a dict object appears only by simple_scan(make_return_dict=True); it
\* is then empty and is lidar.output_dict, every dict of an earlier scan is
\* left as it was, no coroutine of an earlier scan holds the new dict and the
\* coroutine the call creates holds it. A coroutine keeps the dict it was
\* created with and a dict is written only by a coroutine that holds it, so
\* nothing a previous scan writes shows in the snapshot of the new scan.
C17_NewScanStartsEmpty ==
    [][/\ Len(dicts') # Len(dicts) =>
             /\ last'.op = "simple_scan"
             /\ Len(dicts') = Len(dicts) + 1
             /\ output_dict' = Len(dicts')
             /\ DOMAIN dicts'[output_dict'] = {}
             /\ \A d \in 1..Len(dicts) : dicts'[d] = dicts[d]
             /\ \A i \in 1..Len(streams) : streams'[i].dict # output_dict'
             /\ \A i \in (Len(streams) + 1)..Len(streams') : streams'[i].dict = output_dict'
       /\ \A i \in 1..Len(streams) : streams'[i].dict = streams[i].dict
       /\ \A d \in 1..Len(dicts) :
             dicts'[d] # dicts[d] =>
                /\ running' \in 1..Len(streams)
                /\ streams[running'].dict = d]_vars

\* C17 witness: the second scan's snapshot holds 2.67 alone, written by its
\* own coroutine's run, while the first scan's snapshot holds 44.67
C17_Witness ==
    /\ Len(dicts) = 2
    /\ Len(streams) = 2
    /\ streams[1].dict = 1
    /\ streams[2].dict = 2
    /\ output_dict = 2
    /\ DOMAIN dicts[1] = {4467}
    /\ DOMAIN dicts[2] = {267}

\* C18 (as stated): what a reader got from lidar.output_dict stays as it was
\* when the reader got it.
C18_ReaderSeesPointInTimeCopy ==
    seen.ref # 0 => dicts[seen.ref] = seen.at

\* C18 (amended): the snapshot is written only by streaming loops that were
\* given it, each write storing the sample just published at its angle, and
\* a reader of lidar.output_dict gets the dict object itself, not a copy:
\* reading creates no object, and a later write of a streaming loop shows in
\* what the reader holds.
C18_ReaderHoldsLiveDict ==
    [][/\ seen' # seen =>
             /\ seen'.ref = output_dict
             /\ dicts' = dicts
       /\ \A d \in 1..Len(dicts) :
             dicts'[d] # dicts[d] =>
                /\ Published
                /\ running' \in 1..Len(streams)
                /\ streams[running'].dict = d
                /\ dicts'[d] = DictSet(dicts[d], Sample.a_deg, Sample.d_mm)
       /\ (Published /\ seen.ref # 0 /\ streams[running'].dict = seen.ref) =>
             /\ seen' = seen
             /\ Sample.a_deg \in DOMAIN dicts'[seen'.ref]
             /\ dicts'[seen'.ref][Sample.a_deg] = Sample.d_mm]_vars

\* C18 witness: the reader took the dict when it was empty, a scan is still
\* streaming into it and it now holds 44.67
C18_Witness ==
    /\ seen.ref # 0
    /\ seen.at = EmptyDict
    /\ DOMAIN dicts[seen.ref] = {4467}
    /\ ~stop_event
    /\ \E i \in 1..Len(streams) :
          /\ streams[i].dict = seen.ref
          /\ streams[i].pc \in {"loop", "sleep_empty", "sleep_short"}

\* a streaming coroutine was started, has not ended, and the stop event is
\* not set
StreamActive ==
    /\ ~stop_event
    /\ \E i \in 1..Len(streams) : streams[i].pc \in {"loop", "sleep_empty", "sleep_short"}

\* C19: while a scan stream is active, no healthcheck and no simple_scan
\* reads from the serial port.
C19_NoExchangeWhileStreaming ==
    [][(/\ StreamActive
        /\ last'.op \in {"healthcheck", "simple_scan"}
        /\ tx' # tx) =>
            /\ last'.reads = <<>>
            /\ rx' = rx]_vars

\* C20: a healthcheck that got no response before the timeout, nothing at
\* all or a descriptor and then no payload, raises ConnectionError.
C20_HealthTimeoutIsConnectionError ==
    (/\ last.op = "healthcheck"
     /\ last.sent = <<(<<165, 82>>)>>
     /\ last.response = <<>>
     /\ \/ last.descriptor = <<>>
        \/ last.desc.exc = "None" /\ last.desc.length > 0) =>
        last.exc = "ConnectionError"

\* a step in which RPLidar(...) is called
ConstructStep == constructed = "no" /\ constructed' # "no"

C22_GetInfoNotImplemented ==
    [][(last'.op = "get_info" /\ last' # last) =>
          /\ last'.exc = "NotImplementedError"
          /\ last'.trace = <<>>
          /\ last'.sent = <<>>
          /\ last'.reads = <<>>
          /\ UNCHANGED <<tx, rx, port, streams, dicts, output_dict, stop_event,
                         output_queue>>]_vars

\* C22 witness: get_info raised after a scan was started and the port closed
C22_Witness ==
    /\ last.op = "get_info"
    /\ last.exc = "NotImplementedError"
    /\ ~port.is_open
    /\ Len(streams) = 1
    /\ tx = <<(<<165, 82>>), (<<165, 32>>), (<<165, 37>>)>>

\* C23: for every 15-bit raw angle, the decoded angle quantized again to the
\* third-of-a-degree grid is the decoded angle itself, and quantizing that
\* once more gives the same value.
C23_QuantizationIdempotent ==
    (arg.f = "quantize" /\ ret.called) =>
        /\ ret.value.again = ret.value.a_deg
        /\ ret.value.twice = ret.value.again
        /\ QuantizedAngle(ret.value.a_deg, arg.x)

\* C23 witness: raw angle 2858 decoded to 44.67 and quantized again to 44.67
C23_Witness ==
    /\ arg.f = "quantize"
    /\ ret.called
    /\ arg.x = 2858
    /\ ret.value = [a_deg |-> 4467, again |-> 4467, twice |-> 4467]

\* C24: _parse_simple_scan_result returns for every 5-byte record, with the
\* quality the top 6 bits of byte 0, so in 0..63, and the distance
\* (byte 3 + 256 * byte 4) / 4 mm.
C24_DecoderTotalOnRecords ==
    (arg.f = "parse_simple_scan_call" /\ ret.called /\ Len(arg.x) = 5) =>
        /\ ret.value.exc = "None"
        /\ ret.value.q = arg.x[1] \div 4
        /\ ret.value.q \in 0..63
        /\ 4 * ret.value.d_mm = 100 * (arg.x[4] + 256 * arg.x[5])

\* C24 witness: FF 55 16 88 13 decoded to quality 63 and distance 1250 mm
C24_Witness ==
    /\ arg.f = "parse_simple_scan_call"
    /\ ret.called
    /\ arg.x = <<255, 85, 22, 136, 19>>
    /\ ret.value.exc = "None"
    /\ ret.value.q = 63
    /\ ret.value.d_mm = 125000

\* C25: disconnect() raises nothing; on an open port it calls close once and
\* the port is closed afterwards; on a port that is not open it makes no
\* call and leaves the connection as it was.
C25_DisconnectClosesIffOpen ==
    [][(last'.op = "disconnect" /\ last' # last) =>
          /\ last'.exc = "None"
          /\ port.is_open =>
                /\ last'.trace = <<Ev("close", <<>>)>>
                /\ ~port'.is_open
                /\ port'._is_connected = port._is_connected
          /\ ~port.is_open =>
                /\ last'.trace = <<>>
                /\ port' = port
          /\ rx' = rx]_vars

\* C26: once stop_event is set while the streaming coroutine has not ended,
\* the coroutine eventually ends: it leaves the while loop at its next test,
\* or an exception ends it before that.
C26_StopEventuallyEndsLoop ==
    (stop_event /\ streams[1].pc \in {"created", "loop", "sleep_empty", "sleep_short"})
        ~> (streams[1].pc \in {"done", "raised"})

\* C26 witness: stop_event was set after samples were published and the
\* loop has exited through its while test
C26_Witness ==
    /\ stop_event
    /\ streams[1].pc = "done"
    /\ Len(output_queue) > 0

\* C27: the streaming loop reads from the port only when at least 10 bytes
\* are waiting, and every read returns a whole record of `length` bytes: no
\* partial record is read or handed to the decoder.
C27_ReadsOnlyWholeRecords ==
    [][rx' # rx =>
          /\ Len(rx) >= 10
          /\ Len(rx) - Len(rx') = streams[1].length
          /\ streams'[1].exc # "IndexError"]_vars

\* the coroutine left its while loop because stop_event was set
ExitedOnCancellation(s) == s.pc = "done" \/ (s.pc = "raised" /\ s.exc = "ValueError")

\* C28: a loop that exits on cancellation calls output_queue.task_done
\* exactly once, the call comes after the last sample was put on the queue,
\* and nothing is put on the queue after it; a loop that has not exited on
\* cancellation has not called it.
C28_TaskDoneOnceAfterLastPut ==
    /\ [](streams[1].task_done = (IF ExitedOnCancellation(streams[1]) THEN 1 ELSE 0))
    /\ [][/\ streams'[1].task_done # streams[1].task_done =>
                /\ stop_event
                /\ streams'[1].task_done = streams[1].task_done + 1
                /\ output_queue' = output_queue
          /\ streams[1].task_done > 0 => output_queue' = output_queue]_vars

\* C28 witness: the loop exited on cancellation after publishing every record
\* that was waiting, and task_done was called once
C28_Witness ==
    /\ stop_event
    /\ streams[1].pc = "done"
    /\ streams[1].task_done = 1
    /\ Len(output_queue) = MaxRecords

\* C29: handle_response called with exactly the keywords serial and length
\* reads `length` bytes once and returns them; called with keywords that
\* include serial, stop_event, output_queue and length it returns a coroutine
\* that has not started, without reading; with any other arguments it raises
\* NotImplementedError without reading.
C29_HandleResponseDispatch ==
    (arg.f = "handle_response" /\ ret.called) =>
        LET x == arg.x
            r == ret.value
        IN  IF x.nargs = 0 /\ x.kwargs = {"serial", "length"}
            THEN /\ r.exc = "None"
                 /\ r.reads = <<x.length>>
                 /\ r.value = ReadData(x.buf, x.length)
                 /\ ~r.coroutine
            ELSE IF {"serial", "stop_event", "output_queue", "length"} \subseteq x.kwargs
            THEN /\ r.exc = "None"
                 /\ r.coroutine
                 /\ r.reads = <<>>
            ELSE /\ r.exc = "NotImplementedError"
                 /\ r.reads = <<>>

\* C30: with no consumer, every record the loop reads adds one sample to the
\* queue and the loop goes on to its while test without suspending, however
\* many samples are queued already: the queue holds one sample for every
\* record read so far.
C30_PutNeverBlocksQueueGrows ==
    /\ [](streams[1].exc # "IndexError" =>
            Len(output_queue) * streams[1].length =
                Len(Concat(arg.records) \o arg.tail) - Len(rx))
    /\ [][(rx' # rx /\ streams'[1].exc = "None") =>
            /\ Len(output_queue') = Len(output_queue) + 1
            /\ streams'[1].pc = "loop"
            /\ running' = 1]_vars

\* C30 witness: no consumer took anything and the queue holds as many
\* samples as records were waiting, the loop still running
C30_Witness ==
    /\ Len(arg.records) = MaxRecords
    /\ Len(output_queue) = MaxRecords
    /\ streams[1].pc = "loop"
    /\ ~stop_event

\* C31: parse_response_descriptor returns a (length, mode) pair only when
\* serial.read(7) returned 7 bytes: on a short read, of 0 to 6 bytes, it
\* raises and yields no length and no mode.
C31_ShortDescriptorAlwaysFails ==
    (/\ arg.f = "parse_response_descriptor"
     /\ ret.called
     /\ Len(arg.x) < RESPONSE_DESCRIPTOR_LENGTH) =>
        /\ ret.value.exc # "None"
        /\ ret.value.site # "return"

\* C32: once stop_event is set the loop publishes at most one more sample.
\* A sample is published after the set only by the iteration that was
\* sleeping before its read when the event was set, and from a state with
\* the event set the loop never enters a sleep again, so no second such
\* iteration exists.
C32_AtMostOnePutAfterStop ==
    /\ [][(stop_event /\ output_queue' # output_queue) =>
            /\ streams[1].pc = "sleep_short"
            /\ Len(output_queue') = Len(output_queue) + 1]_vars
    /\ [][(stop_event /\ streams'[1].pc # streams[1].pc) =>
            streams'[1].pc \in {"loop", "done", "raised"}]_vars
    /\ [][(stop_event /\ streams[1].pc = "loop") =>
            (streams'[1].pc \in {"done", "raised"} /\ output_queue' = output_queue)]_vars

\* C32 witness: the state just after the one further publication: the event
\* was set during the 0.1 s sleep, the record was read and published, and
\* the coroutine is on its way to the while test
C32_Witness ==
    /\ stop_event
    /\ streams[1].pc = "loop"
    /\ running = 1
    /\ Len(output_queue) = 1
    /\ rx = <<60, 85>>

\* C33: a loop that exits on cancellation ends without an exception, however
\* many samples it published: the task_done call after the loop does not
\* raise.
C33_CancellationExitNeverRaises ==
    streams[1].task_done > 0 =>
        (streams[1].pc = "done" /\ streams[1].exc = "None")

\* C34: in the example program the printer is never left waiting in q.get()
\* on an empty queue once the stop event is set and the streaming coroutine
\* has ended, a state no task can leave.
C34_PrinterNotLeftInGet ==
    ~(/\ stop_event
      /\ streams[1].pc = "done"
      /\ printer.pc = "get"
      /\ output_queue = <<>>)

\* the k-th record the device delivers
Delivered(k) == FeedOrder[((k - 1) % Len(FeedOrder)) + 1]

\* C35: in the example program the samples the printer got, followed by
\* those still queued, are the samples of the records read from the port so
\* far, one each and in the order the records were read.
C35_SamplesInReadOrder ==
    LET through == printer.got \o output_queue
    IN  /\ Len(through) * streams[1].length = fed * streams[1].length - Len(rx)
        /\ \A k \in 1..Len(through) : through[k] = SampleOf(Delivered(k))

\* C35 witness: the printer got two samples, which are not equal, and the
\* queue is empty
C35_Witness ==
    /\ Len(printer.got) = 2
    /\ printer.got[1] # printer.got[2]
    /\ output_queue = <<>>

\* C36: the coroutine of a scan started with make_return_dict=False writes
\* no snapshot: every change of a dict object is made by a coroutine whose
\* scan was started with make_return_dict=True.
C36_ScanWithoutDictWritesNone ==
    [][(Len(dicts') = Len(dicts) /\ dicts' # dicts) =>
          /\ running' \in 1..Len(streams)
          /\ streams[running'].make_return_dict # Some(FALSE)]_vars

\* C37: the stop event of a finished scan does not carry over: when
\* simple_scan returns a coroutine after the previous stream left its loop on
\* the stop event, the event is not set, so that the new coroutine passes its
\* first while test and reads and publishes records.
C37_StopDoesNotCarryOver ==
    [][(/\ Len(streams) >= 1
        /\ Len(streams') = Len(streams) + 1
        /\ ExitedOnCancellation(streams[Len(streams)])) =>
            ~is_set(stop_event')]_vars

\* C38: after any sequence of connect() and disconnect() calls on a
\* SerialConnection, failed connects included, _is_connected is true exactly
\* when the port is open.
C38_FlagIffOpen ==
    port._is_connected <=> port.is_open

====
